---- MODULE Spec2Model ----
(***************************************************************************)
(* SnowflakeProfiler (snowflake_profiler.py).                              *)
(*                                                                         *)
(*   Spec      one get_workunits pass over a database: the option default, *)
(*             the Collect loop, the short-circuit and the dispatch.       *)
(*   SpecBatch get_batch_kwargs as a function of table and configuration.  *)
(*   SpecConn  get_profiler_instance / callable_for_db_connection and the  *)
(*             pooled connections the profiling workers run on.            *)
(***************************************************************************)
EXTENDS Integers, Sequences, FiniteSets, TLC

VARIABLES
    \* ---- get_workunits ----
    config,                  \* self.config.profiling (+ is_profiling_enabled)
    options,                 \* self.config.options, a dict
    options0,                \* history: config.options before the pass
    schemas,                 \* database.schemas, as the list of schema names
    db_tables,               \* db_tables: schema name -> list of tables
    pc,                      \* position of the generator
    si, ti,                  \* loop positions: schema index, table index (0: list not fetched yet)
    profile_requests,        \* the local list profile_requests
    profiling_skipped_other, \* self.report.profiling_skipped_other
    skipped0,                \* history: the counter before the pass
    profiled,                \* names given to report.report_entity_profiled
    calls,                   \* history: get_profile_request calls, [table, outcome]
    log,                     \* tables named by the logger.info of line 57
    classified,              \* history: tables the loop body has run for, in order
    dispatched,              \* history: argument lists of generate_profile_workunits
    yielded,                 \* number of work units yielded by the pass
    error,                   \* exception leaving the generator, or "none"
    \* ---- get_batch_kwargs ----
    bk_in,                   \* inputs of one get_batch_kwargs call
    bk_out,                  \* its result, None before the call
    \* ---- connections ----
    engines,                 \* the engines made by get_profiler_instance, in order
    conns,                   \* the connections made by config.get_connection, in order
    tpc,                     \* thread -> position
    teng,                    \* thread -> engine it works on (0: none)
    tconn,                   \* thread -> connection it is on (0: none)
    executed                 \* history: the profiling queries run

passVars == <<config, options, options0, schemas, db_tables, pc, si, ti,
              profile_requests, profiling_skipped_other, skipped0, profiled,
              calls, log, classified, dispatched, yielded, error>>
batchVars == <<bk_in, bk_out>>
connVars == <<engines, conns, tpc, teng, tconn, executed>>
vars == <<passVars, batchVars, connVars>>

----------------------------------------------------------------------------
(* Bounds *)
MaxSchemas == 2       \* schemas of the database
MaxTables == 2        \* tables of the database, all schemas together
MaxWorkers == 1       \* profiling.max_workers ranges over 1..MaxWorkers
MaxUnits == 1         \* work units the profiler service yields in a pass

SchemaNames == {"S1", "S2", "S3"}
TableTypes == {"BASE TABLE", "EXTERNAL TABLE"}
DatabaseName == "D1"
\* values of a max_overflow the user has put into config.options
OverflowValues == {0, 2}
\* counter values left by the passes over earlier databases
EarlierSkips == {0, 1}
\* Optional values are lists of at most one element: None is the empty one
None == <<>>
Some(x) == <<x>>

\* Sequences over S of length 0..n
SeqUpTo(S, n) == UNION {[1..k -> S] : k \in 0..n}

\* Lists without repetition
Distinct(seq) == \A i, j \in 1..Len(seq) : i # j => seq[i] # seq[j]

----------------------------------------------------------------------------
(* Python dict helpers *)

\* variant: the default is one short of the value asked for
setdefault_short(d, key, value) ==
    IF key \in DOMAIN d THEN d
    ELSE [k \in DOMAIN d \cup {key} |-> IF k = key THEN value - 1 ELSE d[k]]

\* dict.setdefault(key, value): sets the key only when it is absent
setdefault(d, key, value) ==
    IF key \in DOMAIN d THEN d
    ELSE [k \in DOMAIN d \cup {key} |-> IF k = key THEN value ELSE d[k]]

\* variant: the counter is bumped twice
increment_twice(d, key) == [d EXCEPT ![key] = @ + 2]

\* defaultdict(int)[key] += 1
increment(d, key) == [d EXCEPT ![key] = @ + 1]

----------------------------------------------------------------------------
(* get_workunits *)

\* the table the loop is at
CurSchema == schemas[si]
CurTable == db_tables[CurSchema][ti]
CurId == <<CurSchema, ti>>

\* variant: the configuration flag is read the wrong way round
is_skipped_external_inverted(table) ==
    config.profile_external_tables /\ table.type = "EXTERNAL TABLE"

\* lines 53-56: the external-table exclusion
is_skipped_external(table) ==
    ~config.profile_external_tables /\ table.type = "EXTERNAL TABLE"

\* GenericProfiler.get_profile_request, seen from its call site: it returns
\* a request, returns None, or raises
ProfileRequestOutcomes == {"request", "none", "raise"}

\* the request get_profile_request builds for a table
profile_request_for(table, schema_name, db_name) ==
    [pretty_name |-> <<db_name, schema_name, table.name>>,
     schema |-> schema_name, name |-> table.name]

TableNames == <<"T1", "T2", "T3">>
Tables == [name : {"T1", "T2", "T3"}, type : TableTypes]

\* a list of tables: the table at position i is named Ti
TableLists ==
    {l \in SeqUpTo(Tables, MaxTables) :
        \A i \in 1..Len(l) : l[i].name = TableNames[i]}

\* number of tables in a db_tables mapping
RECURSIVE SumLen(_, _)
SumLen(t, dom) ==
    IF dom = {} THEN 0
    ELSE LET s == CHOOSE x \in dom : TRUE
         IN Len(t[s]) + SumLen(t, dom \ {s})
TableCount(t) == SumLen(t, DOMAIN t)

PassInit ==
    /\ config \in [profiling_enabled : BOOLEAN,
                   profile_external_tables : BOOLEAN,
                   max_workers : 1..MaxWorkers]
    /\ options \in {[k \in {} |-> 0]} \cup [{"max_overflow"} -> OverflowValues]
    /\ options0 = options
    /\ schemas \in {s \in SeqUpTo(SchemaNames, MaxSchemas) :
                        /\ Distinct(s)
                        /\ \A i \in 1..Len(s) : s[i] = <<"S1", "S2", "S3">>[i]}
    /\ \E dom \in SUBSET {schemas[i] : i \in 1..Len(schemas)} :
         db_tables \in {t \in [dom -> TableLists] : TableCount(t) <= MaxTables}
    /\ pc = "start"
    /\ si = 1
    /\ ti = 0
    /\ profile_requests = <<>>
    /\ \E v \in EarlierSkips :
         profiling_skipped_other = [s \in SchemaNames |-> v]
    /\ skipped0 = profiling_skipped_other
    /\ profiled = <<>>
    /\ calls = <<>>
    /\ log = <<>>
    /\ classified = <<>>
    /\ dispatched = <<>>
    /\ yielded = 0
    /\ error = "none"

\* lines 45-50
Start ==
    /\ pc = "start"
    /\ options' = IF config.profiling_enabled
                  THEN setdefault(options, "max_overflow", config.max_workers)
                  ELSE options
    /\ profile_requests' = <<>>
    /\ pc' = "collect"
    /\ UNCHANGED <<config, options0, schemas, db_tables, si, ti,
                   profiling_skipped_other, skipped0, profiled, calls, log,
                   classified, dispatched, yielded, error>>
    /\ UNCHANGED <<batchVars, connVars>>

\* line 52: db_tables[schema.name] of a listed schema
EnterSchema ==
    /\ pc = "collect" /\ si <= Len(schemas) /\ ti = 0
    /\ CurSchema \in DOMAIN db_tables
    /\ ti' = 1
    /\ UNCHANGED <<config, options, options0, schemas, db_tables, pc, si,
                   profile_requests, profiling_skipped_other, skipped0,
                   profiled, calls, log, classified, dispatched, yielded, error>>
    /\ UNCHANGED <<batchVars, connVars>>

\* variant: a schema without table list is passed over (db_tables.get(name, []))
SchemaKeyErrorSwallowed ==
    /\ pc = "collect" /\ si <= Len(schemas) /\ ti = 0
    /\ schemas[si] \notin DOMAIN db_tables
    /\ si' = si + 1
    /\ UNCHANGED <<config, options, options0, schemas, db_tables, pc, ti,
                   profile_requests, profiling_skipped_other, skipped0,
                   profiled, calls, log, classified, dispatched, yielded, error>>
    /\ UNCHANGED <<batchVars, connVars>>

\* line 52: db_tables[schema.name] raises KeyError
SchemaKeyError ==
    /\ pc = "collect" /\ si <= Len(schemas) /\ ti = 0
    /\ CurSchema \notin DOMAIN db_tables
    /\ pc' = "raised"
    /\ error' = "KeyError"
    /\ UNCHANGED <<config, options, options0, schemas, db_tables, si, ti,
                   profile_requests, profiling_skipped_other, skipped0,
                   profiled, calls, log, classified, dispatched, yielded>>
    /\ UNCHANGED <<batchVars, connVars>>

InTable == pc = "collect" /\ si <= Len(schemas) /\ ti >= 1
           /\ ti <= Len(db_tables[CurSchema])

\* variant: the `continue` of line 61 is missing, the skipped table also
\* gets its request
SkipExternalNoContinue ==
    /\ pc = "collect" /\ si <= Len(schemas) /\ ti >= 1
    /\ ti <= Len(db_tables[schemas[si]])
    /\ is_skipped_external(db_tables[schemas[si]][ti])
    /\ log' = Append(log, <<DatabaseName, schemas[si], db_tables[schemas[si]][ti].name>>)
    /\ profiling_skipped_other' = increment(profiling_skipped_other, schemas[si])
    /\ classified' = Append(classified, <<schemas[si], ti>>)
    /\ calls' = Append(calls, [table |-> <<schemas[si], ti>>, outcome |-> "request"])
    /\ LET profile_request ==
             profile_request_for(db_tables[schemas[si]][ti], schemas[si], DatabaseName)
       IN /\ profiled' = Append(profiled, profile_request.pretty_name)
          /\ profile_requests' = Append(profile_requests, profile_request)
    /\ ti' = ti + 1
    /\ UNCHANGED <<config, options, options0, schemas, db_tables, pc, si,
                   skipped0, dispatched, yielded, error>>
    /\ UNCHANGED <<batchVars, connVars>>

\* lines 53-61
SkipExternal ==
    /\ InTable
    /\ is_skipped_external(CurTable)
    /\ log' = Append(log, <<DatabaseName, CurSchema, CurTable.name>>)
    /\ profiling_skipped_other' = increment(profiling_skipped_other, CurSchema)
    /\ classified' = Append(classified, CurId)
    /\ ti' = ti + 1
    /\ UNCHANGED <<config, options, options0, schemas, db_tables, pc, si,
                   profile_requests, skipped0, profiled, calls, dispatched,
                   yielded, error>>
    /\ UNCHANGED <<batchVars, connVars>>

\* lines 63-68, get_profile_request returning `outcome`
BuildRequest ==
    /\ InTable
    /\ ~is_skipped_external(CurTable)
    /\ classified' = Append(classified, CurId)
    /\ \E outcome \in ProfileRequestOutcomes :
         /\ calls' = Append(calls, [table |-> CurId, outcome |-> outcome])
         /\ IF outcome = "request"
            THEN LET profile_request ==
                       profile_request_for(CurTable, CurSchema, DatabaseName)
                 IN /\ profiled' = Append(profiled, profile_request.pretty_name)
                    /\ profile_requests' = Append(profile_requests, profile_request)
                    /\ ti' = ti + 1
                    /\ UNCHANGED <<pc, error>>
            ELSE IF outcome = "none"
            THEN /\ ti' = ti + 1
                 /\ UNCHANGED <<profiled, profile_requests, pc, error>>
            ELSE /\ pc' = "raised"
                 /\ error' = "RequestError"
                 /\ UNCHANGED <<profiled, profile_requests, ti>>
    /\ UNCHANGED <<config, options, options0, schemas, db_tables, si,
                   profiling_skipped_other, skipped0, log, dispatched, yielded>>
    /\ UNCHANGED <<batchVars, connVars>>

\* line 52 -> line 51: the table list of the schema is exhausted
LeaveSchema ==
    /\ pc = "collect" /\ si <= Len(schemas) /\ ti >= 1
    /\ ti > Len(db_tables[CurSchema])
    /\ si' = si + 1
    /\ ti' = 0
    /\ UNCHANGED <<config, options, options0, schemas, db_tables, pc,
                   profile_requests, profiling_skipped_other, skipped0,
                   profiled, calls, log, classified, dispatched, yielded, error>>
    /\ UNCHANGED <<batchVars, connVars>>

\* lines 70-71
ShortCircuit ==
    /\ pc = "collect" /\ si > Len(schemas)
    /\ Len(profile_requests) = 0
    /\ pc' = "done"
    /\ UNCHANGED <<config, options, options0, schemas, db_tables, si, ti,
                   profile_requests, profiling_skipped_other, skipped0,
                   profiled, calls, log, classified, dispatched, yielded, error>>
    /\ UNCHANGED <<batchVars, connVars>>

\* variant: the emptiness test of line 70 is missing
DispatchUnguarded ==
    /\ pc = "collect" /\ si > Len(schemas)
    /\ dispatched' = Append(dispatched,
                            [requests |-> profile_requests,
                             max_workers |-> config.max_workers,
                             db_name |-> DatabaseName])
    /\ pc' = "emit"
    /\ UNCHANGED <<config, options, options0, schemas, db_tables, si, ti,
                   profile_requests, profiling_skipped_other, skipped0,
                   profiled, calls, log, classified, yielded, error>>
    /\ UNCHANGED <<batchVars, connVars>>

\* lines 73-79: the call of generate_profile_workunits
Dispatch ==
    /\ pc = "collect" /\ si > Len(schemas)
    /\ Len(profile_requests) # 0
    /\ dispatched' = Append(dispatched,
                            [requests |-> profile_requests,
                             max_workers |-> config.max_workers,
                             db_name |-> DatabaseName])
    /\ pc' = "emit"
    /\ UNCHANGED <<config, options, options0, schemas, db_tables, si, ti,
                   profile_requests, profiling_skipped_other, skipped0,
                   profiled, calls, log, classified, yielded, error>>
    /\ UNCHANGED <<batchVars, connVars>>

\* line 73: yield from passes one work unit through
Emit ==
    /\ pc = "emit"
    /\ yielded < MaxUnits
    /\ yielded' = yielded + 1
    /\ UNCHANGED <<config, options, options0, schemas, db_tables, pc, si, ti,
                   profile_requests, profiling_skipped_other, skipped0,
                   profiled, calls, log, classified, dispatched, error>>
    /\ UNCHANGED <<batchVars, connVars>>

\* line 79: the profiler service's sequence is exhausted
Finish ==
    /\ pc = "emit"
    /\ pc' = "done"
    /\ UNCHANGED <<config, options, options0, schemas, db_tables, si, ti,
                   profile_requests, profiling_skipped_other, skipped0,
                   profiled, calls, log, classified, dispatched, yielded, error>>
    /\ UNCHANGED <<batchVars, connVars>>



----------------------------------------------------------------------------
(* get_batch_kwargs *)

MaxNameLen == 2       \* length of the generated table names
MaxRows == 20         \* small rows_count values 0..MaxRows
MaxSample == 3        \* small sample_size values 0..MaxSample
MaxLimit == 2         \* profiling.limit values 0..MaxLimit

LowerChars == <<"a", "b", "c", "d", "e", "f", "g", "h", "i", "j", "k", "l", "m",
                "n", "o", "p", "q", "r", "s", "t", "u", "v", "w", "x", "y", "z">>
UpperChars == <<"A", "B", "C", "D", "E", "F", "G", "H", "I", "J", "K", "L", "M",
                "N", "O", "P", "Q", "R", "S", "T", "U", "V", "W", "X", "Y", "Z">>

\* str.upper() on one character
upper_char(c) ==
    IF \E i \in 1..26 : LowerChars[i] = c
    THEN UpperChars[CHOOSE i \in 1..26 : LowerChars[i] = c]
    ELSE c

\* str.upper(); a name is the sequence of its characters
upper(name) == [i \in 1..Len(name) |-> upper_char(name[i])]

\* Python truth value of an Optional[int]: None and 0 are false
truthy(x) == x # None /\ x[1] # 0

\* n decimal digits of rem/den (rem < den) and what is left over
RECURSIVE DivDigits(_, _, _)
DivDigits(rem, den, n) ==
    IF n = 0 THEN [digits |-> <<>>, rem |-> rem]
    ELSE LET rest == DivDigits((rem * 10) % den, den, n - 1)
         IN [digits |-> <<(rem * 10) \div den>> \o rest.digits, rem |-> rest.rem]

\* adds one unit in the last place; position 1 holds the integer part
RECURSIVE AddUlp(_, _)
AddUlp(ds, i) ==
    IF i = 1 THEN [ds EXCEPT ![1] = @ + 1]
    ELSE IF ds[i] < 9 THEN [ds EXCEPT ![i] = @ + 1]
    ELSE AddUlp([ds EXCEPT ![i] = 0], i - 1)

\* format(num / den, ".nf") for num >= 0, den > 0: the integer part followed
\* by exactly n digits, rounded to nearest, an exact tie to the even digit
format_f(num, den, n) ==
    LET d == DivDigits(num % den, den, n)
        ds == <<num \div den>> \o d.digits
        up == \/ 2 * d.rem > den
              \/ 2 * d.rem = den /\ ds[n + 1] % 2 = 1
    IN IF up THEN AddUlp(ds, n + 1) ELSE ds

\* variant: the factor 100 of the percentage is missing
sample_pc_unscaled(sample_size, rows_count) ==
    [num |-> sample_size, den |-> rows_count]

\* line 98: sample_pc = 100 * sample_size / rows_count, kept as a quotient
sample_pc(sample_size, rows_count) ==
    [num |-> 100 * sample_size, den |-> rows_count]

\* variant: the limit is not looked at
sampling_applies_ignoring_limit(profiling, table) ==
    /\ profiling.use_sampling
    /\ truthy(table.rows_count)
    /\ table.rows_count[1] > profiling.sample_size

\* lines 88-93
sampling_applies(profiling, table) ==
    /\ ~truthy(profiling.limit)
    /\ profiling.use_sampling
    /\ truthy(table.rows_count)
    /\ table.rows_count[1] > profiling.sample_size

\* line 99: the f-string, as the list of its pieces
custom_sql_for(profiling, table, schema_name, db_name) ==
    LET pc_ == sample_pc(profiling.sample_size, table.rows_count[1])
    IN <<"select * from ", "\"", db_name, "\"", ".", "\"", schema_name, "\"",
         ".", "\"", table.name, "\"", " TABLESAMPLE (",
         format_f(pc_.num, pc_.den, 8), ")">>

\* variant: the entries of the base builder win
merge_base_wins(base, over) ==
    [k \in DOMAIN base \cup DOMAIN over |->
        IF k \in DOMAIN base THEN base[k] ELSE over[k]]

\* {**base, k1: v1, ...}: later entries replace earlier ones
merge(base, over) ==
    [k \in DOMAIN base \cup DOMAIN over |->
        IF k \in DOMAIN over THEN over[k] ELSE base[k]]

\* lines 84-107; base is the result of super().get_batch_kwargs
get_batch_kwargs(profiling, table, schema_name, db_name, base) ==
    LET custom_sql == IF sampling_applies(profiling, table)
                      THEN Some(custom_sql_for(profiling, table, schema_name, db_name))
                      ELSE None
    IN merge(base, [k \in {"use_quoted_name", "custom_sql"} |->
                       IF k = "use_quoted_name"
                       THEN table.name # upper(table.name)
                       ELSE custom_sql])

NameChars == {"t", "T", "_", "1"}
t_lower == <<"t", "_", "l", "o", "w", "e", "r">>
T_UPPER == <<"T", "_", "U", "P", "P", "E", "R">>
TableNamesB ==
    (SeqUpTo(NameChars, MaxNameLen) \ {<<>>}) \cup {t_lower, T_UPPER}
RowCounts == {None} \cup {Some(n) : n \in 0..MaxRows \cup {2048, 1000000}}
SampleSizes == 0..MaxSample \cup {10000}
Limits == {None} \cup {Some(n) : n \in 0..MaxLimit}

\* what super().get_batch_kwargs may hand back: schema and table, and
\* possibly entries of its own under the two keys set here
BaseKwargs(table, schema_name) ==
    LET plain == [k \in {"schema", "table"} |->
                     IF k = "schema" THEN schema_name ELSE table.name]
        quoted == {plain} \cup {merge(plain, [k \in {"use_quoted_name"} |-> q]) :
                                   q \in BOOLEAN}
    IN quoted \cup {merge(b, [k \in {"custom_sql"} |-> Some(<<"select 1">>)]) :
                       b \in quoted}

BatchInit ==
    /\ \E profiling \in [limit : Limits, use_sampling : BOOLEAN,
                         sample_size : SampleSizes],
          table \in [name : TableNamesB, rows_count : RowCounts] :
         \E base \in BaseKwargs(table, "S1") :
            bk_in = [profiling |-> profiling, table |-> table,
                     schema_name |-> "S1", db_name |-> "D1", base |-> base]
    /\ bk_out = None

\* one call of get_batch_kwargs
CallGetBatchKwargs ==
    /\ bk_out = None
    /\ bk_out' = get_batch_kwargs(bk_in.profiling, bk_in.table,
                                  bk_in.schema_name, bk_in.db_name, bk_in.base)
    /\ UNCHANGED bk_in
    /\ UNCHANGED <<passVars, connVars>>

----------------------------------------------------------------------------
(* get_profiler_instance, callable_for_db_connection and the pooled
   connections *)

MaxThreads == 2       \* the orchestrating thread and the pool's workers
MaxConns == 2         \* connections opened by config.get_connection

Databases == {"D1", "D2"}
Threads == 1..MaxThreads

\* the database a fresh session of config.get_connection is in: none, or
\* whatever the account defaults to
FreshSessionDatabases == Databases \cup {"none"}

\* variant: the closure reads a name shared by all factories
callable_for_db_connection_shared(db_name) == [db_name |-> "D1"]

\* lines 138-144: the closure get_db_connection with its captured db_name
callable_for_db_connection(db_name) == [db_name |-> db_name]

ConnInit ==
    /\ engines = [d \in Databases |-> None]
    /\ conns = <<>>
    /\ tpc = [t \in Threads |-> "idle"]
    /\ teng = [t \in Threads |-> "none"]
    /\ tconn = [t \in Threads |-> 0]
    /\ executed = {}

\* the engine made for db_name, and the connections idle in its pool
Engine(db_name) == engines[db_name][1]
HasEngine(db_name) == engines[db_name] # None

\* lines 112-128: the engine is created with the factory of db_name as its
\* creator, and engine.connect() starts a checkout
GetProfilerInstance(t, db_name) ==
    /\ tpc[t] = "idle"
    /\ ~HasEngine(db_name)
    /\ engines' = [engines EXCEPT ![db_name] =
                      Some([creator |-> callable_for_db_connection(db_name),
                            pool |-> {}])]
    /\ teng' = [teng EXCEPT ![t] = db_name]
    /\ tpc' = [tpc EXCEPT ![t] = "checkout"]
    /\ UNCHANGED <<conns, tconn, executed>>
    /\ UNCHANGED <<passVars, batchVars>>

\* a worker of the profiler made for db_name asks its engine for a connection
BeginCheckout(t, db_name) ==
    /\ tpc[t] = "idle"
    /\ HasEngine(db_name)
    /\ teng' = [teng EXCEPT ![t] = db_name]
    /\ tpc' = [tpc EXCEPT ![t] = "checkout"]
    /\ UNCHANGED <<engines, conns, tconn, executed>>
    /\ UNCHANGED <<passVars, batchVars>>

\* the pool hands out an idle connection of the engine
PoolCheckout(t) ==
    /\ tpc[t] = "checkout"
    /\ \E c \in Engine(teng[t]).pool :
         /\ engines' = [engines EXCEPT ![teng[t]][1].pool = @ \ {c}]
         /\ tconn' = [tconn EXCEPT ![t] = c]
    /\ tpc' = [tpc EXCEPT ![t] = "holding"]
    /\ UNCHANGED <<conns, teng, executed>>
    /\ UNCHANGED <<passVars, batchVars>>

\* line 140: the pool calls the creator, which opens a session
OpenConnection(t) ==
    /\ tpc[t] = "checkout"
    /\ Engine(teng[t]).pool = {}
    /\ Len(conns) < MaxConns
    /\ \E fresh \in FreshSessionDatabases :
         conns' = Append(conns,
                         [database |-> fresh,
                          factory |-> Engine(teng[t]).creator,
                          statements |-> <<>>,
                          returned |-> FALSE])
    /\ tconn' = [tconn EXCEPT ![t] = Len(conns) + 1]
    /\ tpc' = [tpc EXCEPT ![t] = "opened"]
    /\ UNCHANGED <<engines, teng, executed>>
    /\ UNCHANGED <<passVars, batchVars>>

\* variant: the statement is built but not executed
UseDatabaseNotExecuted(t) ==
    /\ tpc[t] = "opened"
    /\ tpc' = [tpc EXCEPT ![t] = "scoped"]
    /\ UNCHANGED <<engines, conns, teng, tconn, executed>>
    /\ UNCHANGED <<passVars, batchVars>>

\* line 141: use database <db_name> runs on the new session
UseDatabase(t) ==
    /\ tpc[t] = "opened"
    /\ LET db_name == conns[tconn[t]].factory.db_name
       IN conns' = [conns EXCEPT ![tconn[t]].database = db_name,
                                 ![tconn[t]].statements =
                                      Append(@, <<"use database", db_name>>)]
    /\ tpc' = [tpc EXCEPT ![t] = "scoped"]
    /\ UNCHANGED <<engines, teng, tconn, executed>>
    /\ UNCHANGED <<passVars, batchVars>>

\* line 141 raises: the session never leaves get_db_connection
UseDatabaseFails(t) ==
    /\ tpc[t] = "opened"
    /\ tpc' = [tpc EXCEPT ![t] = "idle"]
    /\ tconn' = [tconn EXCEPT ![t] = 0]
    /\ teng' = [teng EXCEPT ![t] = "none"]
    /\ UNCHANGED <<engines, conns, executed>>
    /\ UNCHANGED <<passVars, batchVars>>

\* line 142: get_db_connection returns the session to the pool, which
\* hands it to the thread
ReturnConnection(t) ==
    /\ tpc[t] = "scoped"
    /\ conns' = [conns EXCEPT ![tconn[t]].returned = TRUE]
    /\ tpc' = [tpc EXCEPT ![t] = "holding"]
    /\ UNCHANGED <<engines, teng, tconn, executed>>
    /\ UNCHANGED <<passVars, batchVars>>

\* a profiling query of the engine's database runs on the held connection
ExecuteRequest(t) ==
    /\ tpc[t] = "holding"
    /\ executed' = executed \cup
          {[request_db |-> teng[t],
            session_db |-> conns[tconn[t]].database]}
    /\ UNCHANGED <<engines, conns, tpc, teng, tconn>>
    /\ UNCHANGED <<passVars, batchVars>>

\* the connection goes back to the pool of its engine
ReleaseConnection(t) ==
    /\ tpc[t] = "holding"
    /\ engines' = [engines EXCEPT ![teng[t]][1].pool = @ \cup {tconn[t]}]
    /\ tpc' = [tpc EXCEPT ![t] = "idle"]
    /\ tconn' = [tconn EXCEPT ![t] = 0]
    /\ teng' = [teng EXCEPT ![t] = "none"]
    /\ UNCHANGED <<conns, executed>>
    /\ UNCHANGED <<passVars, batchVars>>

----------------------------------------------------------------------------
BatchIdle == bk_in = None /\ bk_out = None
ConnIdle ==
    /\ engines = <<>> /\ conns = <<>> /\ tpc = <<>> /\ teng = <<>>
    /\ tconn = <<>> /\ executed = {}

PassIdle ==
    /\ config = None /\ options = None /\ options0 = None /\ schemas = <<>>
    /\ db_tables = <<>> /\ pc = "idle" /\ si = 0 /\ ti = 0
    /\ profile_requests = <<>> /\ profiling_skipped_other = <<>>
    /\ skipped0 = <<>> /\ profiled = <<>> /\ calls = <<>> /\ log = <<>>
    /\ classified = <<>> /\ dispatched = <<>> /\ yielded = 0 /\ error = "none"

Init == PassInit /\ BatchIdle /\ ConnIdle
Next ==
    \/ Start
    \/ EnterSchema
    \/ SchemaKeyError
    \/ SkipExternal
    \/ BuildRequest
    \/ LeaveSchema
    \/ ShortCircuit
    \/ Dispatch
    \/ Emit
    \/ Finish
Spec == Init /\ [][Next]_vars

InitBatch == PassIdle /\ BatchInit /\ ConnIdle
NextBatch == CallGetBatchKwargs
SpecBatch == InitBatch /\ [][NextBatch]_vars

InitConn == PassIdle /\ BatchIdle /\ ConnInit
NextConn ==
    \/ \E t \in Threads, db_name \in Databases : GetProfilerInstance(t, db_name)
    \/ \E t \in Threads, db_name \in Databases : BeginCheckout(t, db_name)
    \/ \E t \in Threads : PoolCheckout(t)
    \/ \E t \in Threads : OpenConnection(t)
    \/ \E t \in Threads : UseDatabase(t)
    \/ \E t \in Threads : UseDatabaseFails(t)
    \/ \E t \in Threads : ReturnConnection(t)
    \/ \E t \in Threads : ExecuteRequest(t)
    \/ \E t \in Threads : ReleaseConnection(t)
SpecConn == InitConn /\ [][NextConn]_vars

----------------------------------------------------------------------------
(* Properties of get_workunits *)

\* the Collect loop has run to its end
CollectFinished ==
    \/ pc \in {"emit", "done"}
    \/ pc = "collect" /\ si > Len(schemas)

\* the tables of the catalog snapshot, as <<schema name, position>>
ListedIds ==
    UNION {{<<schemas[k], i>> : i \in 1..Len(db_tables[schemas[k]])} :
             k \in 1..Len(schemas)}

TableAt(id) == db_tables[id[1]][id[2]]
HasRequest(id) ==
    \E k \in 1..Len(profile_requests) :
        /\ profile_requests[k].schema = id[1]
        /\ profile_requests[k].name = TableAt(id).name
HasSkip(id) ==
    \E k \in 1..Len(log) : log[k] = <<DatabaseName, id[1], TableAt(id).name>>
Outcome(id, o) ==
    \E k \in 1..Len(calls) : calls[k] = [table |-> id, outcome |-> o]
WasCalled(id) == \E k \in 1..Len(calls) : calls[k].table = id
Disallowed(id) ==
    ~config.profile_external_tables /\ TableAt(id).type = "EXTERNAL TABLE"
Growth(s) == profiling_skipped_other[s] - skipped0[s]
ClassifiedIds == {classified[k] : k \in 1..Len(classified)}

\* C1 as stated: after Collect every listed table has exactly one of
\* {a pending request, a recorded skip}, whatever get_profile_request returned.
C1_ExactlyOneOutcome ==
    CollectFinished =>
        \A id \in ListedIds : HasRequest(id) # HasSkip(id)

\* C1 amended: after Collect no listed table has both a pending request and
\* a recorded skip; a table has neither exactly when get_profile_request
\* returned None for it; the skip counter of each schema has grown by the
\* number of its tables with a recorded skip.
C1_OneOutcomeUnlessNone ==
    CollectFinished =>
        /\ \A id \in ListedIds :
             /\ ~(HasRequest(id) /\ HasSkip(id))
             /\ (~HasRequest(id) /\ ~HasSkip(id)) <=> Outcome(id, "none")
        /\ \A s \in SchemaNames :
             Growth(s) = Cardinality({id \in ListedIds : id[1] = s /\ HasSkip(id)})
        /\ Len(profile_requests) = Cardinality({id \in ListedIds : HasRequest(id)})

C1_Witness ==
    /\ CollectFinished
    /\ \E a, b \in ListedIds : HasRequest(a) /\ HasSkip(b)

\* the catalog of the example: one schema holding one disallowed external
\* table and one ordinary table
ExampleCatalog ==
    /\ schemas = <<"S1">>
    /\ "S1" \in DOMAIN db_tables
    /\ Len(db_tables["S1"]) = 2
    /\ {db_tables["S1"][i].type : i \in 1..2} = TableTypes
    /\ ~config.profile_external_tables
ExampleOrdinary ==
    CHOOSE id \in {<<"S1", 1>>, <<"S1", 2>>} : TableAt(id).type = "BASE TABLE"

C2_SkippedState ==
    /\ \A id \in ClassifiedIds :
         Disallowed(id) =>
            /\ HasSkip(id)
            /\ ~WasCalled(id)
            /\ ~HasRequest(id)
            /\ \A k \in 1..Len(profiled) :
                 profiled[k] # <<DatabaseName, id[1], TableAt(id).name>>
            /\ \A d \in 1..Len(dispatched) :
                 \A k \in 1..Len(dispatched[d].requests) :
                    ~(/\ dispatched[d].requests[k].schema = id[1]
                      /\ dispatched[d].requests[k].name = TableAt(id).name)
    /\ CollectFinished =>
         \A id \in ListedIds : Disallowed(id) => id \in ClassifiedIds

C2_SkipStep ==
    (/\ Len(classified') = Len(classified) + 1
     /\ Disallowed(classified'[Len(classified')]))
    => \A s \in SchemaNames :
         profiling_skipped_other'[s] =
            profiling_skipped_other[s]
               + (IF s = classified'[Len(classified')][1] THEN 1 ELSE 0)

\* C2 as stated: a disallowed external table is skipped, never requested,
\* never reported, never dispatched; in the example the counter ends at 1,
\* one profiled entry is reported and Dispatch receives exactly one request.
C2_ExampleAlwaysDispatches ==
    /\ C2_SkippedState
    /\ (ExampleCatalog /\ pc \in {"emit", "done"}) =>
         /\ Growth("S1") = 1
         /\ Len(profiled) = 1
         /\ Len(dispatched) = 1
         /\ Len(dispatched[1].requests) = 1

C2_ExampleAmended ==
    (ExampleCatalog /\ pc \in {"emit", "done"}) =>
        /\ Growth("S1") = 1
        /\ \A s \in SchemaNames \ {"S1"} : Growth(s) = 0
        /\ IF Outcome(ExampleOrdinary, "request")
           THEN /\ Len(profiled) = 1
                /\ Len(dispatched) = 1
                /\ Len(dispatched[1].requests) = 1
                /\ dispatched[1].requests[1].name = TableAt(ExampleOrdinary).name
           ELSE /\ Outcome(ExampleOrdinary, "none")
                /\ profiled = <<>>
                /\ dispatched = <<>>

\* C2 amended: a disallowed external table is skipped, its schema's counter
\* grows by exactly 1 and no other counter changes, get_profile_request is
\* never called for it, it is never reported nor dispatched; in the example
\* the counter ends at 1 and, when get_profile_request returns a request for
\* the ordinary table, one profiled entry is reported and Dispatch receives
\* exactly one request (when it returns None, nothing is reported and
\* Dispatch is not invoked).
C2_ExternalSkipped ==
    /\ [](C2_SkippedState /\ C2_ExampleAmended)
    /\ [][C2_SkipStep]_vars

C2_Witness ==
    /\ ExampleCatalog
    /\ pc = "emit"
    /\ Len(dispatched) = 1
    /\ Growth("S1") = 1

C3_State ==
    /\ (CollectFinished /\ profile_requests = <<>>) =>
          /\ pc # "emit"
          /\ yielded = 0
          /\ dispatched = <<>>
    /\ Len(dispatched) <= 1
    /\ yielded > 0 => dispatched # <<>>
    /\ dispatched # <<>> =>
          /\ CollectFinished
          /\ ClassifiedIds = ListedIds
          /\ dispatched[1].requests = profile_requests

C3_Step ==
    (pc = "collect" /\ si > Len(schemas) /\ profile_requests = <<>>)
    => (pc' = "done" /\ yielded' = 0 /\ dispatched' = <<>>)

\* C3: with an empty pending-request list after Collect the pass ends with
\* zero work units and without a call of generate_profile_workunits;
\* Dispatch happens at most once per pass, after every table was classified.
C3_EmptyShortCircuits ==
    /\ []C3_State
    /\ [][C3_Step]_vars

C3_Witness ==
    /\ pc = "done"
    /\ profile_requests = <<>>
    /\ dispatched = <<>>
    /\ \E a, b \in ListedIds : HasSkip(a) /\ Outcome(b, "none")

\* C5 as stated: whenever Dispatch runs with profiling enabled,
\* options["max_overflow"] >= profiling.max_workers, whatever config.options
\* held before.
C5_OverflowAtLeastWorkers ==
    (dispatched # <<>> /\ config.profiling_enabled) =>
        /\ "max_overflow" \in DOMAIN options
        /\ options["max_overflow"] >= config.max_workers

\* C5 amended: whenever Dispatch runs with profiling enabled, config.options
\* holds a max_overflow; it equals profiling.max_workers when config.options
\* held none before the pass, and it is the value config.options already
\* held otherwise (which may be below max_workers).
C5_OverflowDefaulted ==
    /\ (pc # "start" /\ config.profiling_enabled) =>
          /\ "max_overflow" \in DOMAIN options
          /\ IF "max_overflow" \in DOMAIN options0
             THEN options = options0
             ELSE options["max_overflow"] = config.max_workers
    /\ ~config.profiling_enabled => options = options0

C5_Witness ==
    /\ dispatched # <<>>
    /\ config.profiling_enabled
    /\ "max_overflow" \notin DOMAIN options0
    /\ options["max_overflow"] = MaxWorkers

\* C9: each table is classified exactly once per pass, tables of the same
\* type get the same decision, and after Collect the skip counter of each
\* schema has grown by exactly the number of its disallowed external tables.
C9_ClassifiedOnce ==
    /\ Distinct(classified)
    /\ \A a, b \in ClassifiedIds :
          TableAt(a).type = TableAt(b).type => (HasSkip(a) <=> HasSkip(b))
    /\ CollectFinished =>
          /\ ClassifiedIds = ListedIds
          /\ \A s \in SchemaNames :
               Growth(s) = Cardinality({id \in ListedIds :
                                           id[1] = s /\ Disallowed(id)})

C9_Witness ==
    /\ CollectFinished
    /\ \E s \in SchemaNames : Growth(s) = 2 /\ skipped0[s] = 1

C10_State ==
    /\ pc = "raised" =>
          /\ error \in {"KeyError", "RequestError"}
          /\ dispatched = <<>>
          /\ yielded = 0
          /\ ~ENABLED Next
    /\ error # "none" => pc = "raised"

C10_Step ==
    /\ (pc = "collect" /\ si <= Len(schemas) /\ ti = 0
        /\ schemas[si] \notin DOMAIN db_tables)
       => (pc' = "raised" /\ error' = "KeyError")
    /\ (Len(calls') = Len(calls) + 1 /\ calls'[Len(calls')].outcome = "raise")
       => (pc' = "raised" /\ error' = "RequestError")

\* C10: a failure in Collect (a listed schema without entry in db_tables, or
\* get_profile_request raising) leaves the generator as an exception and
\* ends the pass: generate_profile_workunits is not called and no work unit
\* is yielded, also when requests had been collected before.
C10_CollectFailureAborts ==
    /\ []C10_State
    /\ [][C10_Step]_vars

C10_Witness ==
    /\ pc = "raised"
    /\ error = "KeyError"
    /\ Len(profile_requests) >= 1

----------------------------------------------------------------------------
(* Properties of get_batch_kwargs *)

Called == bk_out # None
Quote == "\""
ZeroRendering == <<0, 0, 0, 0, 0, 0, 0, 0, 0>>

\* the pieces of the custom_sql returned, and the rendered fraction in it
SqlPieces == bk_out["custom_sql"][1]
Rendered == SqlPieces[14]

\* the number written by digits ds[i..Len(ds)]
RECURSIVE DigitsValue(_, _)
DigitsValue(ds, i) ==
    IF i > Len(ds) THEN 0
    ELSE ds[i] * 10 ^ (Len(ds) - i) + DigitsValue(ds, i + 1)

SamplingCase ==
    /\ Called
    /\ bk_in.table.rows_count # None
    /\ bk_in.table.rows_count[1] > bk_in.profiling.sample_size
    /\ bk_in.profiling.use_sampling
    /\ bk_in.profiling.limit = None

\* the clause is there and selects from "db"."schema"."table"
C6_QuotedPath ==
    /\ bk_out["custom_sql"] # None
    /\ Len(SqlPieces) = 15
    /\ SqlPieces[1] = "select * from "
    /\ SubSeq(SqlPieces, 2, 12) =
          <<Quote, bk_in.db_name, Quote, ".", Quote, bk_in.schema_name, Quote,
            ".", Quote, bk_in.table.name, Quote>>
    /\ SqlPieces[13] = " TABLESAMPLE ("
    /\ SqlPieces[15] = ")"

\* the fraction is written with 8 decimals and is the 8-decimal number
\* nearest to 100 * sample_size / rows_count
C6_RenderedFraction ==
    LET r == bk_in.table.rows_count[1]
        n == 100 * bk_in.profiling.sample_size
    IN /\ Len(Rendered) = 9
       /\ \A i \in 2..9 : Rendered[i] \in 0..9
       /\ Rendered[1] \in {n \div r, n \div r + 1}
       /\ r <= 21 =>
            LET d == 10 ^ 8 * (n - Rendered[1] * r) - DigitsValue(Rendered, 2) * r
            IN 2 * d <= r /\ -2 * d <= r
       /\ (r = 1000000 /\ n = 1000000) => Rendered = <<1, 0, 0, 0, 0, 0, 0, 0, 0>>
       /\ (r = 2048 /\ n = 100) => Rendered = <<0, 0, 4, 8, 8, 2, 8, 1, 2>>
       /\ (r = 2048 /\ n = 300) => Rendered = <<0, 1, 4, 6, 4, 8, 4, 3, 8>>

\* C6 as stated: in the sampling case custom_sql selects from the quoted
\* path with TABLESAMPLE 100 * sample_size / rows_count in 8 decimals, and
\* the fraction is always above 0 and below 100.
C6_FractionStrictlyInside ==
    SamplingCase =>
        /\ C6_QuotedPath
        /\ C6_RenderedFraction
        /\ Rendered # ZeroRendering
        /\ Rendered[1] < 100

\* C6 amended: in the sampling case with sample_size >= 0, custom_sql selects
\* from the quoted path with TABLESAMPLE 100 * sample_size / rows_count in
\* 8 decimals; the quotient is below 100, and above 0 when sample_size >= 1;
\* with sample_size = 0 the clause is produced with fraction 0.00000000.
C6_SamplingClause ==
    SamplingCase =>
        /\ C6_QuotedPath
        /\ C6_RenderedFraction
        /\ 100 * bk_in.profiling.sample_size < 100 * bk_in.table.rows_count[1]
        /\ Rendered[1] < 100 \/ Rendered = <<100, 0, 0, 0, 0, 0, 0, 0, 0>>
        /\ bk_in.profiling.sample_size = 0 <=> Rendered = ZeroRendering

C6_Witness ==
    /\ SamplingCase
    /\ bk_in.table.rows_count = Some(1000000)
    /\ bk_in.profiling.sample_size = 10000
    /\ bk_in.table.name = t_lower
    /\ Rendered = <<1, 0, 0, 0, 0, 0, 0, 0, 0>>

\* C7 as stated: with any configured limit, custom_sql carries no sampling
\* query.
C7_AnyLimitDisablesSampling ==
    (Called /\ bk_in.profiling.limit # None) => bk_out["custom_sql"] = None

\* C7 amended: with a configured limit other than 0, custom_sql carries no
\* sampling query, whatever rows_count, use_sampling and sample_size are; a
\* configured limit of 0 gives the result of no limit at all.
C7_NonZeroLimitDisablesSampling ==
    Called =>
        /\ (bk_in.profiling.limit # None /\ bk_in.profiling.limit # Some(0))
              => bk_out["custom_sql"] = None
        /\ bk_in.profiling.limit = Some(0)
              => bk_out = get_batch_kwargs(
                             [bk_in.profiling EXCEPT !.limit = None],
                             bk_in.table, bk_in.schema_name, bk_in.db_name,
                             bk_in.base)

C7_Witness ==
    /\ Called
    /\ bk_in.profiling.limit = Some(1)
    /\ bk_in.profiling.use_sampling
    /\ bk_in.table.rows_count = Some(1000000)
    /\ bk_in.profiling.sample_size = 10000
    /\ "custom_sql" \in DOMAIN bk_in.base
    /\ bk_out["custom_sql"] = None

HasLowerCase(name) ==
    \E i \in 1..Len(name) : \E j \in 1..26 : name[i] = LowerChars[j]

\* C8: use_quoted_name is true exactly for names that differ from their
\* upper-cased form, also when the base parameters carry a use_quoted_name
\* of their own; t_lower gives true, T_UPPER gives false.
C8_QuotedNameFlag ==
    Called =>
        /\ bk_out["use_quoted_name"] = HasLowerCase(bk_in.table.name)
        /\ bk_in.table.name = t_lower => bk_out["use_quoted_name"] = TRUE
        /\ bk_in.table.name = T_UPPER => bk_out["use_quoted_name"] = FALSE
        /\ \A k \in DOMAIN bk_in.base \ {"use_quoted_name", "custom_sql"} :
              bk_out[k] = bk_in.base[k]

C8_Witness ==
    /\ Called
    /\ bk_in.table.name = t_lower
    /\ "use_quoted_name" \in DOMAIN bk_in.base
    /\ bk_in.base["use_quoted_name"] = FALSE
    /\ bk_out["use_quoted_name"] = TRUE

----------------------------------------------------------------------------
(* Properties of the connections *)

UsedDatabase(c, db_name) ==
    /\ conns[c].statements # <<>>
    /\ conns[c].statements[1] = <<"use database", db_name>>
    /\ conns[c].database = db_name

\* the connections a thread may run queries on, or may get from a pool
HandedOut(c) ==
    \/ \E t \in Threads : tpc[t] = "holding" /\ tconn[t] = c
    \/ \E d \in Databases : HasEngine(d) /\ c \in Engine(d).pool

\* C4: a connection leaves the factory of database D only after "use
\* database D" ran on it, the engine of get_profiler_instance(D) takes its
\* connections from that factory only, and no request of D ever runs on a
\* connection scoped to another database.
C4_ConnectionScoped ==
    /\ \A c \in 1..Len(conns) :
          /\ conns[c].returned => UsedDatabase(c, conns[c].factory.db_name)
          /\ HandedOut(c) => conns[c].returned
    /\ \A d \in Databases :
          HasEngine(d) =>
             /\ Engine(d).creator.db_name = d
             /\ \A c \in Engine(d).pool : UsedDatabase(c, d)
    /\ \A t \in Threads :
          /\ tpc[t] = "holding" => UsedDatabase(tconn[t], teng[t])
          /\ tpc[t] \in {"opened", "scoped"} =>
                conns[tconn[t]].factory.db_name = teng[t]
    /\ \A q \in executed : q.request_db = q.session_db

C4_Witness ==
    /\ \E q1, q2 \in executed : q1.request_db = "D1" /\ q2.request_db = "D2"
    /\ \E t1, t2 \in Threads :
          /\ tpc[t1] = "holding" /\ tpc[t2] = "holding"
          /\ conns[tconn[t1]].database = "D1"
          /\ conns[tconn[t2]].database = "D2"

====
